---- MODULE Spec2Model ----
(***************************************************************************)
(* A model of zfs-list-gtk.py: the size formatter human_readable, the      *)
(* parser parse_zfs_list_output, the tree builder build_treestore, the     *)
(* normalisation of the -o property list, the column layout of the view    *)
(* and the refresh of the displayed tree (Gui.refresh_tree).               *)
(*                                                                         *)
(* Representation.                                                         *)
(*   - A Python int is a record [neg, mag]; mag is its magnitude as a      *)
(*     little-endian sequence of base-1024 digits without leading zeros    *)
(*     (TLC's own integers are 32 bits wide, ZFS byte counts are 64).      *)
(*   - A Python float is a record [m, e] of value m * 2^e: m is a digit    *)
(*     sequence like mag, of at most 53 significant bits, as RoundBits     *)
(*     leaves it (binary64, round half to even).                           *)
(*   - A Python str is a sequence of pieces, each a TLA+ string: a         *)
(*     separator and each character of a number are pieces of their own,   *)
(*     a name or a keyword that the program only copies is one piece.      *)
(***************************************************************************)
EXTENDS Integers, Sequences, FiniteSets, TLC

(***************************************************************************)
(* Arithmetic on digit sequences                                           *)
(***************************************************************************)

\* The base of the digit sequences that hold a Python int.
IntBase == 1024

\* The number of significant bits of a binary64 (Python float).
FloatBits == 53

RECURSIVE Strip(_)
\* ds without its leading (most significant, last) zero digits.
Strip(ds) ==
    IF ds = <<>> THEN <<>>
    ELSE IF ds[Len(ds)] = 0 THEN Strip(SubSeq(ds, 1, Len(ds) - 1))
    ELSE ds

RECURSIVE DivFrom(_, _, _, _, _, _)
\* Long division, digit i and below still to do: rem is the remainder of
\* the digits above i, q their quotient digits.
DivFrom(ds, base, d, i, rem, q) ==
    IF i = 0 THEN [q |-> q, r |-> rem]
    ELSE DivFrom(ds, base, d, i - 1, (rem * base + ds[i]) % d,
                 <<(rem * base + ds[i]) \div d>> \o q)

\* Long division of the base-`base` number ds by the small number d:
\* q has the length of ds, r is the remainder.
DivSmall(ds, base, d) == DivFrom(ds, base, d, Len(ds), 0, <<>>)

RECURSIVE MulSmall(_, _, _, _)
\* ds * m + c in base `base`: p has the length of ds, c is the carry out.
MulSmall(ds, base, m, c) ==
    IF ds = <<>> THEN [p |-> <<>>, c |-> c]
    ELSE LET cur  == Head(ds) * m + c
             rest == MulSmall(Tail(ds), base, m, cur \div base)
         IN  [p |-> <<cur % base>> \o rest.p, c |-> rest.c]

RECURSIVE ToBase(_, _, _)
\* The base-`from` number ds written in base `to`.
ToBase(ds, from, to) ==
    IF Strip(ds) = <<>> THEN <<>>
    ELSE LET dr == DivSmall(Strip(ds), from, to)
         IN  <<dr.r>> \o ToBase(dr.q, from, to)

RECURSIVE Value(_, _)
\* The number a short digit sequence stands for, as a TLC integer.
Value(ds, base) ==
    IF ds = <<>> THEN 0 ELSE Head(ds) + base * Value(Tail(ds), base)

RECURSIVE Pow(_, _)
Pow(b, e) == IF e = 0 THEN 1 ELSE b * Pow(b, e - 1)

Zeros(n) == [i \in 1..n |-> 0]

\* The digit sequence of a small natural number.
Digits(n, base) == ToBase(<<n>>, Pow(2, 30), base)

\* ds + 1 in base `base`.
Inc(ds, base) ==
    LET s == MulSmall(ds, base, 1, 1)
    IN  IF s.c = 0 THEN s.p ELSE s.p \o <<s.c>>

RECURSIVE Less(_, _)
\* a < b for two digit sequences without leading zeros (same base).
Less(a, b) ==
    IF Len(a) # Len(b) THEN Len(a) < Len(b)
    ELSE IF a = <<>> THEN FALSE
    ELSE IF a[Len(a)] # b[Len(b)] THEN a[Len(a)] < b[Len(b)]
    ELSE Less(SubSeq(a, 1, Len(a) - 1), SubSeq(b, 1, Len(b) - 1))

(***************************************************************************)
(* Python floats (binary64): [m, e] stands for m * 2^e, where m is a digit *)
(* sequence in base IntBase of at most FloatBits significant bits          *)
(***************************************************************************)

\* The number of bits of one digit of base IntBase, and of a digit d.
DigitBits == CHOOSE b \in 1..16 : Pow(2, b) = IntBase
BitLen(d) == CHOOSE b \in 0..DigitBits : d < Pow(2, b) /\ (b > 0 => d >= Pow(2, b - 1))

\* m * 2^s for 0 <= s < DigitBits.
ShiftLeft(m, s) ==
    LET p == MulSmall(m, IntBase, Pow(2, s), 0)
    IN  Strip(p.p \o <<p.c>>)

\* The digit sequence m (followed by a non-zero tail when `sticky`) rounded
\* to FloatBits significant bits, ties to even: the result is m * 2^e.
RoundBits(digits, sticky) ==
    LET ds   == Strip(digits)
        bits == IF ds = <<>> THEN 0
                ELSE DigitBits * (Len(ds) - 1) + BitLen(ds[Len(ds)])
        drop == bits - FloatBits
    IN  IF drop <= 0 THEN [m |-> ds, e |-> 0]
        ELSE LET wl   == drop \div DigitBits
                 wb   == drop % DigitBits
                 low  == SubSeq(ds, 1, wl)
                 dr   == DivSmall(SubSeq(ds, wl + 1, Len(ds)), IntBase, Pow(2, wb))
                 \* the dropped bits, most significant piece first
                 top  == IF wb > 0 THEN dr.r ELSE low[wl]
                 half == IF wb > 0 THEN Pow(2, wb - 1) ELSE IntBase \div 2
                 rest == IF wb > 0 THEN low ELSE SubSeq(low, 1, wl - 1)
                 more == sticky \/ \E i \in 1..Len(rest) : rest[i] # 0
                 q    == Strip(dr.q)
                 up   == \/ top > half
                         \/ top = half /\ (more \/ q[1] % 2 = 1)
             IN  [m |-> IF up THEN Inc(q, IntBase) ELSE q, e |-> drop]

\* float(n) for the magnitude of an int.
IntToFloat(mag) == RoundBits(mag, FALSE)

\* The magnitude of x in fixed point: `whole` is the whole part and `frac`
\* the fraction, as Len(frac) digits after the point, all in base IntBase.
FixedPoint(x) ==
    IF x.e >= 0
    THEN [whole |-> Strip(Zeros(x.e \div DigitBits) \o ShiftLeft(x.m, x.e % DigitBits)),
          frac  |-> <<>>]
    ELSE LET n  == ((0 - x.e) + DigitBits - 1) \div DigitBits
             m2 == ShiftLeft(x.m, n * DigitBits + x.e)
         IN  [whole |-> Strip(SubSeq(m2, n + 1, Len(m2))),
              frac  |-> SubSeq(m2 \o Zeros(n - Len(m2)), 1, n)]

\* The magnitude of a float that holds a whole number, in base IntBase.
FloatMag(x) == FixedPoint(x).whole

\* x / d for a small whole number d, correctly rounded. An int operand
\* (more than FloatBits bits) is converted to a float first.
FloatDiv(x, d) ==
    LET f     == RoundBits(x.m, FALSE)
        guard == (FloatBits \div DigitBits) + 2
        dr    == DivSmall(Zeros(guard) \o f.m, IntBase, d)
        q     == RoundBits(dr.q, dr.r # 0)
    IN  [m |-> q.m, e |-> x.e + f.e - guard * DigitBits + q.e]

(***************************************************************************)
(* human_readable(num, binary)                                             *)
(***************************************************************************)

DigitChar == <<"0", "1", "2", "3", "4", "5", "6", "7", "8", "9">>

RECURSIVE DecChars(_)
\* The decimal digits of the base-10 sequence ds, most significant first.
DecChars(ds) ==
    IF ds = <<>> THEN <<>>
    ELSE DecChars(Tail(ds)) \o <<DigitChar[Head(ds) + 1]>>

\* str(n) for a natural number given in base `base`.
NatStr(ds, base) ==
    IF Strip(ds) = <<>> THEN <<"0">> ELSE DecChars(ToBase(ds, base, 10))

SignStr(neg) == IF neg THEN <<"-">> ELSE <<>>

\* '{}'.format(num) for an int.
IntStr(num) == SignStr(num.neg) \o NatStr(num.mag, IntBase)

\* The step between two units: 1024 in binary mode, 1000 in decimal mode.
UnitStep(binary) == IF binary THEN 1024 ELSE 1000

\* A plausible slip: the loop's unit list without its first entry 'B'.
LoopUnits_NoB(binary) ==
    IF binary
    THEN << <<"K">>, <<"M">>, <<"G">>, <<"T">>, <<"P">>, <<"E">>, <<"Z">> >>
    ELSE << <<"K", "B">>, <<"M", "B">>, <<"G", "B">>, <<"T", "B">>,
            <<"P", "B">>, <<"E", "B">>, <<"Z", "B">> >>

\* The unit names of the loop, in order, and the one used after the loop.
LoopUnits(binary) ==
    IF binary
    THEN << <<"B">>, <<"K">>, <<"M">>, <<"G">>, <<"T">>, <<"P">>, <<"E">>, <<"Z">> >>
    ELSE << <<"B">>, <<"K", "B">>, <<"M", "B">>, <<"G", "B">>, <<"T", "B">>,
            <<"P", "B">>, <<"E", "B">>, <<"Z", "B">> >>

LastUnit(binary) == IF binary THEN <<"Y", "i", "B">> ELSE <<"Y", "B">>

\* What the format strings put between the number and the unit.
UnitSep(binary) == IF binary THEN <<>> ELSE <<" ">>

\* abs(num) < c for a whole number c; num is the int or float x.
AbsLess(x, c) == Less(FixedPoint(x).whole, Digits(c, IntBase))

RECURSIVE FracDigits(_, _)
\* The first d decimal digits of the fraction frac / IntBase^Len(frac), as
\* a number n, and what is left of the fraction after them.
FracDigits(frac, d) ==
    IF d = 0 THEN [n |-> 0, rem |-> frac]
    ELSE LET m    == MulSmall(frac, IntBase, 10, 0)
             rest == FracDigits(m.p, d - 1)
         IN  [n |-> m.c * Pow(10, d - 1) + rest.n, rem |-> rest.rem]

\* '{:.<d>f}'.format(num), d >= 1: the exact value of the float x rounded
\* to d decimals, half to even.
Fixed(neg, x, d) ==
    LET fp    == FixedPoint(x)
        fd    == FracDigits(fp.frac, d)
        twice == MulSmall(fd.rem, IntBase, 2, 0)
        up    == /\ twice.c = 1
                 /\ \/ \E i \in 1..Len(twice.p) : twice.p[i] # 0
                    \/ fd.n % 2 = 1
        n     == fd.n + (IF up THEN 1 ELSE 0)
        carry == n = Pow(10, d)
        fstr  == NatStr(Digits(IF carry THEN 0 ELSE n, 10), 10)
        pad   == [i \in 1..(d - Len(fstr)) |-> "0"]
    IN  SignStr(neg)
            \o NatStr(IF carry THEN Inc(fp.whole, IntBase) ELSE fp.whole, IntBase)
            \o <<".">> \o pad \o fstr

RECURSIVE unit_loop(_, _, _, _)
\* The for loop over the units, from the i-th unit on; x is abs(num).
unit_loop(neg, x, binary, i) ==
    IF i > Len(LoopUnits(binary))
    THEN Fixed(neg, x, 1) \o UnitSep(binary) \o LastUnit(binary)
    ELSE IF AbsLess(x, 10)
    THEN Fixed(neg, x, 2) \o UnitSep(binary) \o LoopUnits(binary)[i]
    ELSE IF AbsLess(x, UnitStep(binary))
    THEN Fixed(neg, x, 1) \o UnitSep(binary) \o LoopUnits(binary)[i]
    ELSE unit_loop(neg, FloatDiv(x, UnitStep(binary)), binary, i + 1)

human_readable(num, binary) ==
    LET x == [m |-> num.mag, e |-> 0]
    IN  IF AbsLess(x, UnitStep(binary))
        THEN IntStr(num) \o UnitSep(binary) \o <<"B">>
        ELSE unit_loop(num.neg, x, binary, 1)

(***************************************************************************)
(* Strings: a str is a sequence of pieces, each a TLA+ string; "\t", "\n"  *)
(* and "," are pieces of their own, a number is written digit by digit     *)
(***************************************************************************)

Str(piece) == <<piece>>

RECURSIVE Split(_, _)
\* s.split(sep): the pieces of s between the occurrences of sep.
Split(s, sep) ==
    IF \A i \in 1..Len(s) : s[i] # sep THEN <<s>>
    ELSE LET i == CHOOSE k \in 1..Len(s) :
                      s[k] = sep /\ \A j \in 1..(k - 1) : s[j] # sep
         IN  <<SubSeq(s, 1, i - 1)>> \o Split(SubSeq(s, i + 1, Len(s)), sep)

RECURSIVE Join(_, _)
\* sep.join(parts)
Join(parts, sep) ==
    IF parts = <<>> THEN <<>>
    ELSE IF Len(parts) = 1 THEN parts[1]
    ELSE parts[1] \o <<sep>> \o Join(Tail(parts), sep)

IsDigit(c) == \E d \in 1..Len(DigitChar) : DigitChar[d] = c
DigitValue(c) == (CHOOSE d \in 1..Len(DigitChar) : DigitChar[d] = c) - 1

\* int(s) for a str s: a ValueError unless s is a run of decimal digits,
\* with an optional sign in front.
ParseInt(s) ==
    LET neg  == s # <<>> /\ s[1] = "-"
        body == IF s # <<>> /\ s[1] \in {"-", "+"} THEN Tail(s) ELSE s
    IN  IF body = <<>> \/ \E i \in 1..Len(body) : ~IsDigit(body[i])
        THEN [err |-> "ValueError", neg |-> FALSE, mag |-> <<>>]
        ELSE LET mag == ToBase([i \in 1..Len(body) |->
                                   DigitValue(body[Len(body) + 1 - i])], 10, IntBase)
             IN  [err |-> "", neg |-> neg /\ mag # <<>>, mag |-> mag]

\* float(s) for a str s that int(s) accepts: the value of the binary64, a
\* whole number, as a digit sequence in base IntBase.
ParseFloat(s) == FloatMag(IntToFloat(ParseInt(s).mag))

(***************************************************************************)
(* parse_zfs_list_output(lines, props)                                     *)
(***************************************************************************)

SIZE_PROPERTIES ==
    {"used", "usedbychildren", "usedbydataset", "usedbysnapshots",
     "available", "referenced"}

Range(f) == {f[i] : i \in DOMAIN f}

\* The dict built for one line: a later entry of the same key replaces an
\* earlier one.
RecordOf(fields, schema) ==
    [p \in Range(schema) |->
        fields[CHOOSE i \in 1..Len(schema) :
                   schema[i] = p /\ \A j \in (i + 1)..Len(schema) : schema[j] # p]]

RECURSIVE parse_zfs_list_output(_, _)
\* [err, filesystems]: err is "" or the exception raised.
parse_zfs_list_output(lines, schema) ==
    IF lines = <<>> THEN [err |-> "", filesystems |-> <<>>]
    ELSE IF Head(lines) = <<>> THEN parse_zfs_list_output(Tail(lines), schema)
    ELSE LET line == Split(Head(lines), "\t")
         IN  IF Len(line) < Len(schema)
             THEN [err |-> "IndexError", filesystems |-> <<>>]
             ELSE LET rest == parse_zfs_list_output(Tail(lines), schema)
                  IN  IF rest.err # "" THEN rest
                      ELSE [err |-> "",
                            filesystems |-> <<RecordOf(line, schema)>>
                                                \o rest.filesystems]

(***************************************************************************)
(* build_treestore(filesystem, props)                                      *)
(***************************************************************************)

\* time.strftime('%a %b %d %H:%M %Y', time.localtime(t)): the text depends
\* on the time zone; the model keeps it as the formatted epoch value.
Strftime(t) == <<"%a %b %d %H:%M %Y">> \o IntStr(t)

\* The values one property adds to the row (lines 88-100).
RowValues(fs, prop) ==
    IF prop \in SIZE_PROPERTIES
    THEN IF fs[prop] = Str("-") THEN [err |-> "", v |-> <<Str("-"), <<>>>>]
         ELSE LET n == ParseInt(fs[prop])
              IN  IF n.err # "" THEN [err |-> n.err, v |-> <<>>]
                  ELSE [err |-> "",
                        v |-> <<human_readable(n, TRUE), ParseFloat(fs[prop])>>]
    ELSE IF prop = "creation"
    THEN LET n == ParseInt(fs[prop])
         IN  IF n.err # "" THEN [err |-> n.err, v |-> <<>>]
             ELSE [err |-> "", v |-> <<Strftime(n), ParseFloat(fs[prop])>>]
    ELSE [err |-> "", v |-> <<fs[prop]>>]

\* row = row + values, unless building the values raised.
RowAdd(row, values) ==
    IF values.err # "" THEN values ELSE [err |-> "", v |-> row.v \o values.v]

RECURSIVE RowFrom(_, _, _, _)
\* The loop of lines 86-100 from props[i] on; row is the row so far.
RowFrom(fs, props, i, row) ==
    IF row.err # "" \/ i > Len(props) THEN row
    ELSE RowFrom(fs, props, i + 1, RowAdd(row, RowValues(fs, props[i])))

\* The row of one record: the values of its properties, in order.
BuildRow(fs, props) == RowFrom(fs, props, 1, [err |-> "", v |-> <<>>])

\* The column types one property adds to the store (lines 79-81).
ColumnTypes(prop) ==
    IF prop \in SIZE_PROPERTIES \/ prop = "creation"
    THEN <<"str", "float">> ELSE <<"str">>

RECURSIVE StoreColumns(_, _)
\* The list cols of lines 77-81, for props[i..].
StoreColumns(props, i) ==
    IF i > Len(props) THEN <<>>
    ELSE ColumnTypes(props[i]) \o StoreColumns(props, i + 1)

\* A slip: the local `parent` starts as None, so that a snapshot with no
\* filesystem before it is appended at the root.
AppendSnapshot_ParentNone(store, parent, row) ==
    IF parent = 0
    THEN [err |-> "",
          store |-> Append(store, [row |-> row, children |-> <<>>])]
    ELSE [err |-> "",
          store |-> [store EXCEPT ![parent].children = Append(@, row)]]

\* store.append(parent, row) of line 107; parent = 0 stands for the local
\* variable `parent` not being bound yet.
AppendSnapshot(store, parent, row) ==
    IF parent = 0 THEN [err |-> "UnboundLocalError", store |-> <<>>]
    ELSE [err |-> "",
          store |-> [store EXCEPT ![parent].children = Append(@, row)]]

\* A slip: `parent` is set by the first filesystem only.
NextParent_First(store, parent) == IF parent = 0 THEN Len(store) + 1 ELSE parent

\* parent = li of line 105: the row just appended at the root.
NextParent(store, parent) == Len(store) + 1

\* Lines 102-107 for a record of the given kind and its row: store is the
\* sequence of root nodes [row, children], parent the index of the last
\* filesystem. A record that is neither a filesystem nor a snapshot adds
\* nothing.
AppendRow(kind, row, store, parent) ==
    IF row.err # ""
    THEN [err |-> row.err, store |-> <<>>, parent |-> parent]
    ELSE IF kind = Str("filesystem")
    THEN [err    |-> "",
          store  |-> Append(store, [row |-> row.v, children |-> <<>>]),
          parent |-> NextParent(store, parent)]
    ELSE IF kind = Str("snapshot")
    THEN LET s == AppendSnapshot(store, parent, row.v)
         IN  [err |-> s.err, store |-> s.store, parent |-> parent]
    ELSE [err |-> "", store |-> store, parent |-> parent]

\* One pass of the loop of lines 84-107, for the record fs.
AppendRecord(fs, props, store, parent) ==
    AppendRow(fs["type"], BuildRow(fs, props), store, parent)

RECURSIVE AppendRecords(_, _, _, _)
\* The loop of lines 84-107 from record i on; s is [err, store, parent]
\* after the records before it.
AppendRecords(filesystems, props, i, s) ==
    IF s.err # "" \/ i > Len(filesystems) THEN s
    ELSE AppendRecords(filesystems, props, i + 1,
             AppendRecord(filesystems[i], props, s.store, s.parent))

\* What build_treestore returns: the store with its column types cols,
\* unless building it raised.
WithColumns(built, cols) ==
    IF built.err # "" THEN [err |-> built.err, cols |-> <<>>, store |-> <<>>]
    ELSE [err |-> "", cols |-> cols, store |-> built.store]

\* Lines 74-108 for the records the parser returned.
BuildStore(parsed, props) ==
    IF parsed.err # "" THEN [err |-> parsed.err, cols |-> <<>>, store |-> <<>>]
    ELSE WithColumns(AppendRecords(parsed.filesystems, props, 1,
                                   [err |-> "", store |-> <<>>, parent |-> 0]),
                     StoreColumns(props, 1))

\* Lines 71-74 for the lines of the command's output.
BuildLines(output, props) ==
    IF output = <<<<>>>> THEN [err |-> "SystemExit", cols |-> <<>>, store |-> <<>>]
    ELSE BuildStore(parse_zfs_list_output(output, props \o <<"type">>), props)

\* cmd is what `zfs list` did: [status, stdout]. The result is
\* [err, cols, store]: err is "" or the exception that ends the call, cols
\* the column types of the store, store its root nodes.
build_treestore(cmd, props) ==
    IF cmd.status # 0 THEN [err |-> "SystemExit", cols |-> <<>>, store |-> <<>>]
    ELSE BuildLines(Split(cmd.stdout, "\n"), props)

(***************************************************************************)
(* __main__: the property list of -o; Gui.__init__: the view's columns     *)
(***************************************************************************)

\* One alias replaced throughout the list (lines 268-270).
Rename(ps, alias, full) == [i \in 1..Len(ps) |-> IF ps[i] = alias THEN full ELSE ps[i]]

\* A part of the split -o string as a property name.
PropName(part) == IF part = <<>> THEN "" ELSE part[1]

\* Lines 265-270: o is the string given with -o.
normalize_props(o) ==
    LET parts == Split(o, ",")
        given == [i \in 1..Len(parts) |-> PropName(parts[i])]
        named == IF "name" \notin Range(given) THEN <<"name">> \o given ELSE given
    IN  Rename(Rename(Rename(named, "avail", "available"),
                      "refer", "referenced"), "ratio", "compressratio")

\* A slip: the sort column of a two-valued property is set, but _index is
\* not advanced past it.
IndexStep_NoSkip(c) == 1

\* What one property adds to _index (lines 139-152).
IndexStep(c) == IF c \in SIZE_PROPERTIES \/ c = "creation" THEN 2 ELSE 1

RECURSIVE ViewColumns(_, _, _)
\* The TreeViewColumns of lines 123-152 for props[i..]: the model column
\* shown (text) and the one sorted by (sort), counted from 0 as in the code.
ViewColumns(ps, i, index) ==
    IF i > Len(ps) THEN <<>>
    ELSE LET c == ps[i]
         IN  <<[title  |-> c,
                text   |-> index,
                sort   |-> IF c \in SIZE_PROPERTIES \/ c = "creation"
                           THEN index + 1 ELSE index,
                xalign |-> IF c \in {"name", "mountpoint", "creation"}
                           THEN 0 ELSE 1]>>
                 \o ViewColumns(ps, i + 1, index + IndexStep(c))

(***************************************************************************)
(* Gtk.TreeView, as far as refresh_tree uses it, and Gui.refresh_tree      *)
(***************************************************************************)

\* tview.row_expanded(Gtk.TreePath(i)): FALSE for a path the model lacks.
row_expanded(expanded, i) == i \in expanded

\* tview.expand_row(Gtk.TreePath(i), False): nothing happens for a path the
\* model lacks or a row without children.
expand_row(model, expanded, i) ==
    IF i < Len(model) /\ model[i + 1].children # <<>>
    THEN expanded \cup {i} ELSE expanded

\* row[0] of a row of a store.
FirstColumn(node) == node.row[1]

\* Lines 208-211: the names of the rows of self.store whose path the view
\* shows expanded.
CaptureExpanded(self_store, expanded) ==
    LET Open(i) == row_expanded(expanded, i - 1)
        open == SelectSeq([i \in 1..Len(self_store) |-> i], Open)
    IN  [k \in 1..Len(open) |-> FirstColumn(self_store[open[k]])]

RECURSIVE ExpandFrom(_, _, _, _, _)
\* Lines 219-221, from row i (from 0) of self.store on; the view shows
\* model, with the paths in expanded open.
ExpandFrom(self_store, model, names, i, expanded) ==
    IF i >= Len(self_store) THEN expanded
    ELSE ExpandFrom(self_store, model, names, i + 1,
             IF FirstColumn(self_store[i + 1]) \in Range(names)
             THEN expand_row(model, expanded, i) ELSE expanded)

\* refresh_tree with the tree the rebuild returned: what the view shows
\* afterwards. set_model drops the expansion state of the old model.
refresh_tree(self_store, expanded, treestore) ==
    LET names == CaptureExpanded(self_store, expanded)
    IN  [expanded_rows |-> names,
         model         |-> treestore,
         expanded      |-> ExpandFrom(self_store, treestore, names, 0, {})]

(***************************************************************************)
(* The zfs list command (external): what it prints                         *)
(***************************************************************************)

\* The field zfs list prints for property prop of the dataset ds.
FieldValue(ds, prop) ==
    IF prop = "name" THEN ds.name
    ELSE IF prop = "type" THEN Str(ds.kind)
    ELSE IF prop \in SIZE_PROPERTIES THEN ds.size
    ELSE IF prop = "creation"
    THEN <<"1", "7", "0", "0", "0", "0", "0", "0", "0", "0">>
    ELSE IF prop = "mountpoint" THEN Str("/tank")
    ELSE Str("1.00x")

\* The line zfs list prints for the dataset ds and the properties ps.
ZfsLine(ds, ps) == Join([i \in 1..Len(ps) |-> FieldValue(ds, ps[i])], "\t")

\* The text zfs list prints for the lines ls: each line ends in a newline.
Stdout(ls) == IF ls = <<>> THEN <<>> ELSE Join(ls, "\n") \o <<"\n">>

\* The lines zfs list prints for the pool n, which has one snapshot if
\* `snapped`.
PoolLines(n, snapped, ps) ==
    <<ZfsLine([name |-> Str(n), kind |-> "filesystem", size |-> Str("-")], ps)>>
    \o (IF snapped
        THEN <<ZfsLine([name |-> <<n, "@", "s">>, kind |-> "snapshot",
                        size |-> Str("-")], ps)>>
        ELSE <<>>)

RECURSIVE ListingLines(_, _, _)
\* The lines zfs list prints for the pools `names`, in order.
ListingLines(names, snapped, ps) ==
    IF names = <<>> THEN <<>>
    ELSE PoolLines(Head(names), Head(names) \in snapped, ps)
            \o ListingLines(Tail(names), snapped, ps)

(***************************************************************************)
(* State                                                                   *)
(***************************************************************************)

VARIABLES
    num,        \* human_readable: the argument num
    binary,     \* human_readable: the argument binary
    text,       \* human_readable: the returned string, <<>> before the call
    o_arg,      \* __main__: the string given with -o
    props,      \* the property list given to build_treestore and Gui
    cmd,        \* what the zfs list command does: [status, stdout]
    result,     \* build_treestore: [err, cols, store], Pending before the call
    columns,    \* Gui.__init__: the columns appended to the view
    store,      \* Gui: self.store, the tree built by __init__
    tview_model,    \* Gui: the model self.tview shows
    tview_expanded, \* Gui: the root paths (from 0) self.tview shows expanded
    expanded_rows,  \* refresh_tree: the names captured by the last refresh
    phase,      \* "init" before Gui(), "running" in Gtk.main(), then "exited"
    last        \* the handler that ran last

calc == <<num, binary, text, o_arg, props, cmd, result, columns>>
gui  == <<store, tview_model, tview_expanded, expanded_rows, phase, last>>
vars == <<calc, gui>>

Pending == [err |-> "pending", cols |-> <<>>, store |-> <<>>]

\* The values of the variables a specification does not use.
FormatIdle == num = [neg |-> FALSE, mag |-> <<>>] /\ binary = FALSE /\ text = <<>>
BuildIdle  == cmd = [status |-> 0, stdout |-> <<>>] /\ result = Pending
SchemaIdle == o_arg = <<>> /\ columns = <<>>
GuiIdle ==
    /\ store = <<>> /\ tview_model = <<>> /\ tview_expanded = {}
    /\ expanded_rows = <<>> /\ phase = "init" /\ last = "none"

(***************************************************************************)
(* The formatter on its own: SpecFormat                                    *)
(***************************************************************************)

\* Largest exponent k of the inputs top * step^k + next * step^(k-1) + adj.
MaxShift == 9

\* ds - 1, for ds > 0, in base `base`.
RECURSIVE Dec(_, _)
Dec(ds, base) ==
    IF Head(ds) > 0 THEN <<Head(ds) - 1>> \o Tail(ds)
    ELSE <<base - 1>> \o Dec(Tail(ds), base)

Tops  == {1, 9, 10, 999, 1000, 1023}
Nexts == {0, 128, 500, 512, 999}
Adjs  == {-1, 0, 1}

\* The magnitudes the formatter is tried on: the small numbers around the
\* first thresholds, and numbers around the thresholds of every unit.
SmallMags == {Digits(n, IntBase) : n \in {0, 1, 9, 10, 99, 999, 1000, 1023}}

ShiftMag(step, k, top, next, adj) ==
    LET ds == Zeros(k - 1) \o <<next, top>>
        a  == IF adj = 1 THEN Inc(ds, step)
              ELSE IF adj = -1 THEN Dec(ds, step) ELSE ds
    IN  ToBase(a, step, IntBase)

ShiftMags ==
    {ShiftMag(UnitStep(b), k, t, n, a) :
        b \in BOOLEAN, k \in 1..MaxShift, t \in Tops, n \in Nexts, a \in Adjs}

FormatInputs ==
    {[neg |-> s, mag |-> m] : s \in BOOLEAN, m \in SmallMags \cup ShiftMags}
        \ {[neg |-> TRUE, mag |-> <<>>]}

InitFormat ==
    /\ num \in FormatInputs
    /\ binary \in BOOLEAN
    /\ text = <<>>
    /\ props = <<>>
    /\ BuildIdle
    /\ SchemaIdle
    /\ GuiIdle

Format ==
    /\ text = <<>>
    /\ text' = human_readable(num, binary)
    /\ UNCHANGED <<num, binary, o_arg, props, cmd, result, columns, gui>>

NextFormat == Format

SpecFormat == InitFormat /\ [][NextFormat]_vars

(***************************************************************************)
(* The parser and the tree builder on their own: SpecBuild                 *)
(***************************************************************************)

\* Largest number of lines of a listing.
MaxLines == 3

\* 2^53 and 2^53 + 1, the first whole number a binary64 cannot hold.
TwoTo53     == <<"9", "0", "0", "7", "1", "9", "9", "2", "5", "4", "7", "4",
                "0", "9", "9", "2">>
TwoTo53Plus == <<"9", "0", "0", "7", "1", "9", "9", "2", "5", "4", "7", "4",
                "0", "9", "9", "3">>

\* The lines a listing is made of: records of two properties and the kind,
\* a line that lacks a field, a line with a field too many, an empty line.
LinePool ==
    {Join(fields, "\t") : fields \in
        { <<Str("tank"), <<"1", "5", "3", "6">>, Str("filesystem")>>,
          <<Str("tank/a"), TwoTo53Plus, Str("filesystem")>>,
          <<Str("tank@s"), Str("-"), Str("snapshot")>>,
          <<Str("tank/a@s"), TwoTo53, Str("snapshot")>>,
          <<Str("tank/v"), <<"0">>, Str("volume")>>,
          <<Str("tank/b"), Str("filesystem")>>,
          <<Str("tank/c"), <<"1", "0", "2", "4", "0">>, Str("filesystem"),
            Str("x")>> }}
    \cup {<<>>}

BuildSchemas == {<<"name", "used">>, <<"name", "available">>, <<"name", "mountpoint">>}

RECURSIVE Listings(_)
\* The sequences of at most n lines of LinePool.
Listings(n) ==
    IF n = 0 THEN {<<>>}
    ELSE LET shorter == Listings(n - 1)
         IN  shorter \cup {Append(ls, l) : ls \in shorter, l \in LinePool}

InitBuild ==
    /\ props \in BuildSchemas
    /\ \E ls \in Listings(MaxLines), st \in {0, 1} :
           /\ st = 1 => ls = <<>>
           /\ cmd = [status |-> st, stdout |-> Stdout(ls)]
    /\ result = Pending
    /\ FormatIdle
    /\ SchemaIdle
    /\ GuiIdle

Build ==
    /\ result = Pending
    /\ result' = build_treestore(cmd, props)
    /\ UNCHANGED <<num, binary, text, o_arg, props, cmd, columns, gui>>

NextBuild == Build

SpecBuild == InitBuild /\ [][NextBuild]_vars

(***************************************************************************)
(* The running program: Spec                                               *)
(***************************************************************************)

\* The pools of the machine, in the order zfs list prints them.
PoolNames == <<"a", "b", "c">>

\* The property list the program runs with (-o name).
GuiProps == <<"name">>

\* What zfs list prints for the pools in `present`, those in `snapped`
\* with one snapshot each.
PoolListing(present, snapped) ==
    LET Here(n) == n \in present
    IN  Stdout(ListingLines(SelectSeq(PoolNames, Here), snapped,
                            GuiProps \o <<"type">>))

\* What the command can do when it is run: fail, or list the pools there are.
Commands ==
    {[status |-> 1, stdout |-> <<>>]}
    \cup {[status |-> 0, stdout |-> PoolListing(p, sn)] :
              p \in SUBSET Range(PoolNames), sn \in SUBSET Range(PoolNames)}

Init ==
    /\ props = GuiProps
    /\ o_arg = <<>> /\ columns = <<>>
    /\ BuildIdle
    /\ FormatIdle
    /\ GuiIdle

\* Gui.__init__ (lines 117-204): the first tree is built and shown.
Start ==
    /\ phase = "init"
    /\ \E c \in Commands :
           /\ cmd' = c
           /\ result' = build_treestore(c, props)
    /\ result'.err = ""
    /\ store' = result'.store
    /\ tview_model' = result'.store
    /\ tview_expanded' = {}
    /\ columns' = ViewColumns(props, 1, 0)
    /\ phase' = "running"
    /\ last' = "init"
    /\ UNCHANGED <<num, binary, text, o_arg, props, expanded_rows>>

\* Gui.__init__ when build_treestore ends in sys.exit: the program ends.
StartFails ==
    /\ phase = "init"
    /\ \E c \in Commands :
           /\ cmd' = c
           /\ result' = build_treestore(c, props)
    /\ result'.err # ""
    /\ phase' = "exited"
    /\ last' = "init"
    /\ UNCHANGED <<num, binary, text, o_arg, props, columns, store, tview_model,
                   tview_expanded, expanded_rows>>

\* The user opens a row that has children.
UserExpands ==
    /\ phase = "running"
    /\ \E i \in 0..(Len(tview_model) - 1) :
           /\ i \notin tview_expanded
           /\ tview_model[i + 1].children # <<>>
           /\ tview_expanded' = tview_expanded \cup {i}
    /\ last' = "expand"
    /\ UNCHANGED <<calc, store, tview_model, expanded_rows, phase>>

\* The user closes an open row.
UserCollapses ==
    /\ phase = "running"
    /\ \E i \in tview_expanded : tview_expanded' = tview_expanded \ {i}
    /\ last' = "collapse"
    /\ UNCHANGED <<calc, store, tview_model, expanded_rows, phase>>

\* on_btn_refresh_clicked (lines 223-224) -> refresh_tree (lines 206-221).
Refresh ==
    /\ phase = "running"
    /\ \E c \in Commands :
           /\ cmd' = c
           /\ result' = build_treestore(c, props)
    /\ result'.err = ""
    /\ LET r == refresh_tree(store, tview_expanded, result'.store)
       IN  /\ expanded_rows' = r.expanded_rows
           /\ tview_model' = r.model
           /\ tview_expanded' = r.expanded
    /\ last' = "refresh"
    /\ UNCHANGED <<num, binary, text, o_arg, props, columns, store, phase>>

\* refresh_tree when the rebuild ends in sys.exit: the names were captured,
\* the view is left as it was, the program ends.
RefreshExits ==
    /\ phase = "running"
    /\ \E c \in Commands :
           /\ cmd' = c
           /\ result' = build_treestore(c, props)
    /\ result'.err = "SystemExit"
    /\ expanded_rows' = CaptureExpanded(store, tview_expanded)
    /\ phase' = "exited"
    /\ last' = "refresh"
    /\ UNCHANGED <<num, binary, text, o_arg, props, columns, store, tview_model,
                   tview_expanded>>

\* Gui.close (lines 236-249): the window is closed.
Close ==
    /\ phase = "running"
    /\ phase' = "exited"
    /\ last' = "close"
    /\ UNCHANGED <<calc, store, tview_model, tview_expanded, expanded_rows>>

Next ==
    \/ Start
    \/ StartFails
    \/ UserExpands
    \/ UserCollapses
    \/ Refresh
    \/ RefreshExits
    \/ Close

Spec == Init /\ [][Next]_vars

(* ----------------------------- C1, C2 --------------------------------- *)

\* The names of the rows the view shows expanded.
ExpandedNames(model, expanded) ==
    {FirstColumn(model[i + 1]) : i \in {j \in expanded : j < Len(model)}}

\* C1: after a refresh a root node of the new tree is expanded if and only
\* if its name is in the expansion set captured just before the refresh: a
\* filesystem that was expanded and still exists is expanded at whatever
\* place it has now, and no other node is. Stated for the nodes that have
\* children: Gtk cannot show a row without children expanded.
C1_ExpandedIffCaptured ==
    (last = "refresh" /\ phase = "running") =>
        \A i \in 0..(Len(tview_model) - 1) :
            tview_model[i + 1].children # <<>> =>
                (i \in tview_expanded
                    <=> FirstColumn(tview_model[i + 1]) \in Range(expanded_rows))

\* C2: at every refresh, the first and the later ones, the expansion set
\* captured is exactly the set of names of the expanded root nodes of the
\* tree the view shows then, the one the latest fetch built.
C2_CaptureReadsDisplayedTree ==
    [][last' = "refresh" =>
          Range(expanded_rows') = ExpandedNames(tview_model, tview_expanded)]_vars

(* ------------------------ C3, C4, C5, C8, C10 ------------------------- *)

Built == result # Pending /\ cmd.status = 0

\* The non-empty lines of the listing, each as its list of fields.
InputLines ==
    LET NonEmpty(l) == l # <<>>
        ls == SelectSeq(Split(cmd.stdout, "\n"), NonEmpty)
    IN  [i \in 1..Len(ls) |-> Split(ls[i], "\t")]

SchemaLen == Len(props) + 1

\* The kind of a line: its field at the place of the trailing type.
HasKind(fields, kind) == Len(fields) >= SchemaLen /\ fields[SchemaLen] = Str(kind)

\* C3: a non-empty line whose number of fields differs from the schema
\* length (fewer or more) makes the fetch fail: an error, and no tree.
C3_WrongFieldCountIsFatal ==
    (Built /\ \E i \in 1..Len(InputLines) : Len(InputLines[i]) # SchemaLen)
        => result.err # "" /\ result.store = <<>>

\* A snapshot line comes before any filesystem line.
SnapshotFirst ==
    \E i \in 1..Len(InputLines) :
        /\ HasKind(InputLines[i], "snapshot")
        /\ \A j \in 1..(i - 1) : ~HasKind(InputLines[j], "filesystem")

\* C4: if a snapshot record occurs before any filesystem record,
\* build_treestore ends in an error and returns no tree: the snapshot is
\* attached nowhere and not placed at the root.
C4_SnapshotFirstIsFatal ==
    (Built /\ SnapshotFirst) => result.err # "" /\ result.store = <<>>

\* The snapshot reached the append of line 107 with no parent bound.
C4_Witness ==
    Built /\ SnapshotFirst /\ result.err = "UnboundLocalError"

\* The row the builder makes of the fields of one line.
RowOfLine(fields) == BuildRow(RecordOf(fields, props \o <<"type">>), props).v

\* The positions, in input order, of the lines of kind filesystem.
FilesystemLines ==
    LET IsFs(i) == HasKind(InputLines[i], "filesystem")
    IN  SelectSeq([i \in 1..Len(InputLines) |-> i], IsFs)

\* The rows of the snapshot lines between positions lo and hi, exclusive.
SnapshotRowsBetween(lo, hi) ==
    LET IsSnap(fields) == HasKind(fields, "snapshot")
        snaps == SelectSeq(SubSeq(InputLines, lo + 1, hi - 1), IsSnap)
    IN  [i \in 1..Len(snaps) |-> RowOfLine(snaps[i])]

StartsWithFilesystem ==
    /\ InputLines # <<>>
    /\ \A i \in 1..Len(InputLines) : Len(InputLines[i]) >= SchemaLen
    /\ HasKind(InputLines[1], "filesystem")

\* C5: for a record sequence that starts with a filesystem record, the
\* roots of the built tree are the filesystem records in input order, and
\* the children of each root are, in input order, the snapshot records
\* between that filesystem record and the next one (so roots are
\* filesystems, children are snapshots without children of their own, and
\* a snapshot's owner is the nearest filesystem record before it).
C5_TreeFollowsInputOrder ==
    (Built /\ StartsWithFilesystem /\ result.err = "") =>
        LET fsl  == FilesystemLines
            tree == result.store
        IN  /\ Len(tree) = Len(fsl)
            /\ \A k \in 1..Len(fsl) :
                   /\ tree[k].row = RowOfLine(InputLines[fsl[k]])
                   /\ tree[k].children =
                          SnapshotRowsBetween(fsl[k],
                              IF k < Len(fsl) THEN fsl[k + 1]
                              ELSE Len(InputLines) + 1)

\* A second filesystem that owns a snapshot of its own.
C5_Witness ==
    /\ Built /\ StartsWithFilesystem /\ result.err = ""
    /\ Len(result.store) >= 2
    /\ result.store[2].children # <<>>

\* The rows of the tree: each root followed by its children.
RECURSIVE TreeRows(_)
TreeRows(tree) ==
    IF tree = <<>> THEN <<>>
    ELSE <<Head(tree).row>> \o Head(tree).children \o TreeRows(Tail(tree))

\* The lines that become nodes, in input order.
NodeLines ==
    LET IsNode(fields) == HasKind(fields, "filesystem") \/ HasKind(fields, "snapshot")
    IN  SelectSeq(InputLines, IsNode)

\* The place in the row of the display value of the j-th property.
RECURSIVE DisplayIndex(_)
DisplayIndex(j) ==
    IF j = 1 THEN 1
    ELSE DisplayIndex(j - 1)
            + (IF props[j - 1] \in SIZE_PROPERTIES \/ props[j - 1] = "creation"
               THEN 2 ELSE 1)

\* C8: for every size property of every record the row holds two adjacent
\* values: for the sentinel '-' the display value '-' and the sort key 0;
\* otherwise the binary human-readable form of the byte count and a sort
\* key equal to the raw byte count exactly, so that two records are ordered
\* by sort key exactly as by their raw counts.
C8_SortKeyExact ==
    (Built /\ result.err = "" /\ Len(TreeRows(result.store)) = Len(NodeLines)) =>
        \A n \in 1..Len(NodeLines) : \A j \in 1..Len(props) :
            props[j] \in SIZE_PROPERTIES =>
                LET row   == TreeRows(result.store)[n]
                    field == NodeLines[n][j]
                    at    == DisplayIndex(j)
                IN  IF field = Str("-")
                    THEN row[at] = Str("-") /\ row[at + 1] = <<>>
                    ELSE /\ row[at] = human_readable(ParseInt(field), TRUE)
                         /\ row[at + 1] = ParseInt(field).mag

\* C10: every non-empty record of the listing becomes exactly one node:
\* the number of nodes (roots plus children) is the number of non-empty
\* lines, whatever the kind field holds.
C10_EveryRecordIsANode ==
    (Built /\ result.err = "") => Len(TreeRows(result.store)) = Len(InputLines)

(***************************************************************************)
(* From the -o string to the view: SpecSchema                              *)
(***************************************************************************)

\* Largest number of properties given with -o.
MaxProps == 3

PropPool ==
    {"name", "used", "avail", "available", "refer", "mountpoint", "creation",
     "ratio"}

RECURSIVE PropLists(_)
\* The non-empty lists of at most n properties of PropPool.
PropLists(n) ==
    IF n = 0 THEN {}
    ELSE PropLists(n - 1)
            \cup {<<q>> : q \in PropPool}
            \cup {Append(ps, q) : ps \in PropLists(n - 1), q \in PropPool}

InitSchema ==
    /\ o_arg \in {Join([i \in 1..Len(ps) |-> Str(ps[i])], ",") : ps \in PropLists(MaxProps)}
    /\ props = <<>>
    /\ columns = <<>>
    /\ BuildIdle
    /\ FormatIdle
    /\ GuiIdle

\* __main__, lines 265-270.
Normalize ==
    /\ props = <<>>
    /\ props' = normalize_props(o_arg)
    /\ UNCHANGED <<num, binary, text, o_arg, cmd, result, columns, gui>>

\* Gui.__init__, lines 117-152, on the listing of a filesystem and one
\* snapshot of it.
Construct ==
    /\ props # <<>>
    /\ result = Pending
    /\ \E fsSize \in {<<"1", "5", "3", "6">>, Str("-")}, snapSize \in {<<"0">>, Str("-")} :
           cmd' = [status |-> 0,
                   stdout |-> Stdout(<<
                       ZfsLine([name |-> Str("tank"), kind |-> "filesystem", size |-> fsSize],
                               props \o <<"type">>),
                       ZfsLine([name |-> Str("tank@s"), kind |-> "snapshot", size |-> snapSize],
                               props \o <<"type">>)>>)]
    /\ result' = build_treestore(cmd', props)
    /\ columns' = ViewColumns(props, 1, 0)
    /\ UNCHANGED <<num, binary, text, o_arg, props, gui>>

NextSchema == Normalize \/ Construct

SpecSchema == InitSchema /\ [][NextSchema]_vars

(* ----------------------------- C6, C9 --------------------------------- *)

\* C6: the normalized schema holds no property name twice and has name at
\* index 0, for every list given with -o.
C6_SchemaInvariant ==
    props # <<>> =>
        /\ props[1] = "name"
        /\ \A i, j \in 1..Len(props) : props[i] = props[j] => i = j

\* The number of values a property has in a row.
Width(prop) == IF prop \in SIZE_PROPERTIES \/ prop = "creation" THEN 2 ELSE 1

RECURSIVE WidthBefore(_)
\* The number of row values of the properties before the j-th.
WidthBefore(j) == IF j = 1 THEN 0 ELSE WidthBefore(j - 1) + Width(props[j - 1])

\* C9: the row of a node and the column layout of the view stay in sync:
\* one value per plain property and two per size or creation property, in
\* schema order; as many values as the store has column types; and for each
\* property the view column's text index is the place of its display value
\* in the row, its sort index the place of its numeric sort key (size and
\* creation) or of the display value itself (plain).
C9_RowAndColumnsInSync ==
    (result # Pending /\ result.err = "") =>
        /\ Len(columns) = Len(props)
        /\ \A n \in 1..Len(NodeLines) :
               LET row == TreeRows(result.store)[n]
                   fs  == RecordOf(NodeLines[n], props \o <<"type">>)
               IN  /\ Len(row) = WidthBefore(Len(props)) + Width(props[Len(props)])
                   /\ Len(row) = Len(result.cols)
                   /\ \A j \in 1..Len(props) :
                          LET c  == columns[j]
                              vs == RowValues(fs, props[j]).v
                          IN  /\ c.title = props[j]
                              /\ c.text = WidthBefore(j)
                              /\ Len(vs) = Width(props[j])
                              /\ c.sort < Len(row)
                              /\ row[c.text + 1] = vs[1]
                              /\ result.cols[c.text + 1] = "str"
                              /\ IF Width(props[j]) = 2
                                 THEN /\ c.sort = c.text + 1
                                      /\ row[c.sort + 1] = vs[2]
                                      /\ result.cols[c.sort + 1] = "float"
                                 ELSE c.sort = c.text

\* A view with a plain column after a two-valued one.
C9_Witness ==
    /\ result # Pending /\ result.err = ""
    /\ Len(TreeRows(result.store)) = 2
    /\ \E j \in 2..Len(props) : Width(props[j - 1]) = 2 /\ Width(props[j]) = 1

(* ----------------------------- C7 ------------------------------------- *)

RECURSIVE DivideTimes(_, _, _)
\* x divided j times by the step, each quotient a binary64.
DivideTimes(x, step, j) ==
    IF x.m = <<>> \/ j = 0 THEN x
    ELSE DivideTimes(FloatDiv(x, step), step, j - 1)

\* abs(num) after j divisions by the step.
Scaled(n, step, j) == DivideTimes([m |-> n.mag, e |-> 0], step, j)

\* The suffixes of the claim, by the number of divisions done.
ClaimSuffix(b) ==
    IF b
    THEN << <<"K">>, <<"M">>, <<"G">>, <<"T">>, <<"P">>, <<"E">>, <<"Z">> >>
    ELSE << <<" ", "K", "B">>, <<" ", "M", "B">>, <<" ", "G", "B">>,
            <<" ", "T", "B">>, <<" ", "P", "B">>, <<" ", "E", "B">>,
            <<" ", "Z", "B">> >>

\* j divisions are the first to bring the magnitude below the step.
FirstBelow(n, b, j) ==
    /\ AbsLess(Scaled(n, UnitStep(b), j), UnitStep(b))
    /\ \A i \in 0..(j - 1) : ~AbsLess(Scaled(n, UnitStep(b), i), UnitStep(b))

\* The number of characters of t between its "." and its suffix sfx.
DecimalsOf(t, sfx) ==
    Len(t) - Len(sfx) - (CHOOSE i \in 1..Len(t) : t[i] = ".")

IntOf(n) == [neg |-> FALSE, mag |-> Digits(n, IntBase)]

\* C7: human_readable selects unit and precision by magnitude. In binary
\* mode a magnitude below 1024 gives "<value>B"; otherwise the value is
\* divided by 1024 until the scaled magnitude is below 1024, the suffix is
\* the one for the number of divisions done (K .. Z), and the number has two
\* decimals when the scaled magnitude is below 10 and one decimal when it is
\* at least 10; decimal mode does the same with 1000 and " B", " KB", ...;
\* format(999,false)="999 B", format(1000,false)="1.00 KB",
\* format(1536,true)="1.50K", format(0,true)="0B". The scaled magnitude is
\* the quotient the loop holds, a binary64.
C7_UnitAndPrecision ==
    text # <<>> =>
        /\ FirstBelow(num, binary, 0) =>
                text = IntStr(num) \o (IF binary THEN <<"B">> ELSE <<" ", "B">>)
        /\ \A j \in 1..Len(ClaimSuffix(binary)) :
                FirstBelow(num, binary, j) =>
                    LET x   == Scaled(num, UnitStep(binary), j)
                        d   == IF AbsLess(x, 10) THEN 2 ELSE 1
                        sfx == ClaimSuffix(binary)[j]
                    IN  /\ text = Fixed(num.neg, x, d) \o sfx
                        /\ DecimalsOf(text, sfx) = d
        /\ (num = IntOf(999) /\ ~binary) => text = <<"9", "9", "9", " ", "B">>
        /\ (num = IntOf(1000) /\ ~binary) =>
                text = <<"1", ".", "0", "0", " ", "K", "B">>
        /\ (num = IntOf(1536) /\ binary) => text = <<"1", ".", "5", "0", "K">>
        /\ (num = IntOf(0) /\ binary) => text = <<"0", "B">>

\* A value of the last looped unit, Z, printed with two decimals.
C7_Witness ==
    /\ text # <<>>
    /\ binary
    /\ FirstBelow(num, binary, Len(ClaimSuffix(binary)))
    /\ DecimalsOf(text, <<"Z">>) = 2
    /\ text[Len(text)] = "Z"

====
